---- MODULE Spec2Model ----
(***************************************************************************)
(* Mercury backend: role / custom-claim composition (src/api/roles.py),   *)
(* the process-local notification timers and push dispatch                 *)
(* (src/common/notifications.py) and the notification documents            *)
(* (src/api/notifications.py).                                             *)
(*                                                                         *)
(* The subsystems share no state, so each has its own next-state relation  *)
(* and specification over the same variables; CancelRaceSpec and           *)
(* ConcAssignSpec break a handler into its accesses to shared state.       *)
(***************************************************************************)
EXTENDS Integers, Sequences, FiniteSets, TLC

VARIABLES
    claims,         \* Firebase custom claims: email -> ClaimBag or None
    roles,          \* Roles/allRoles.roles: role name -> level (absent field: empty map)
    roleArray,      \* Roles/allRoles.roleArray
    roles_to_user,  \* Roles/allRoles.roles_to_user: role name -> set of emails
    resp,           \* body of the last HTTP response of a role endpoint
    timers,         \* notifications.timers: the ids it holds; timers[id] is spawned[id]
    spawned,        \* the threading.Timer objects constructed so far, by id
    now,            \* datetime.now()
    ret,            \* outcome of the last call into common/notifications.py
    notifs,         \* Firestore collection Notification: notification_id -> document
    rtd,            \* realtime database /notifications: notification_id -> entry
    minted,         \* the notification ids uuid4 has produced
    nresp,          \* last response of a notification endpoint
    pushed,         \* the calls made to firebase_admin.messaging, in order
    reqs,           \* assign_role requests in progress: their position and locals
    thr             \* threads inside cancel_scheduled_notification: position and id

roleVars  == <<claims, roles, roleArray, roles_to_user, resp>>
timerVars == <<timers, spawned, now, ret>>
notifVars == <<notifs, rtd, minted, nresp>>
vars      == <<claims, roles, roleArray, roles_to_user, resp, timers, spawned, now, ret,
               notifs, rtd, minted, nresp, pushed, reqs, thr>>

\* What the role endpoints, and what the timer functions, leave alone.
nonRoleVars  == <<timerVars, notifVars, pushed, reqs, thr>>
nonTimerVars == <<roleVars, notifVars, pushed, reqs, thr>>

---------------------------------------------------------------------------
(* Bounds *)

NumRoles  == 3
NumFewRoles == 2
MaxLevel  == 1
MaxTimers == 2
MaxTime   == 1
MaxTokens == 1
MaxNotifs == 2
NumUsers  == 2
MaxPushed == 6
MaxFanout == 2
NumThreads == 2
NumRequests == 2

RoleNames == <<"admin", "editor", "viewer", "guest">>

Roles  == {RoleNames[i] : i \in 1..NumRoles}
FewRoles == {RoleNames[i] : i \in 1..NumFewRoles}
Levels == 0..MaxLevel

\* The registered users, by email.  Every endpoint reads and writes the
\* claims of one user and that user's email in the index, so users do not
\* interact and one stands for any of them.
Principals == {"ann@mil"}

\* An email get_user_by_email finds no account for.
UnknownEmail == "nobody@mil"
Emails       == Principals \cup {UnknownEmail}

\* The reserved key of the claim bag; a request may name it as a role.
AccessLevelKey == "accessLevel"

---------------------------------------------------------------------------
(* Claim bags *)

\* user.custom_claims of a user with no claims
None == [none |-> TRUE]

\* A claim bag: flags = the role keys (their value is always True),
\* level = {} when the bag has no "accessLevel" key, {n} when it is n.
Bag(flags, level) == [flags |-> flags, level |-> level]

HasLevel(bag) == bag.level # {}
LevelOf(bag)  == CHOOSE n \in bag.level : TRUE

\* Keys of the bag, as dict.keys() gives them.
Keys(bag) == bag.flags \cup (IF HasLevel(bag) THEN {AccessLevelKey} ELSE {})

\* Firestore set(..., merge=True) of one entry of a map field.
Upsert(map, k, v) == [x \in DOMAIN map \cup {k} |-> IF x = k THEN v ELSE map[x]]

ArrayUnion(map, k, e)  == [map EXCEPT ![k] = @ \cup {e}]
ArrayRemove(map, k, e) == [map EXCEPT ![k] = @ \ {e}]

\* The orders in which a dict's keys may be listed.
RECURSIVE Orders(_)
Orders(S) ==
    IF S = {} THEN {<<>>}
    ELSE UNION {{<<x>> \o o : o \in Orders(S \ {x})} : x \in S}

Max(a, b) == IF a > b THEN a ELSE b

---------------------------------------------------------------------------
(* Role endpoints *)

\* grant_role: the caller's email is mapped to role r in Roles/roleList.
grant_role(p, r) ==
    /\ claims' = [claims EXCEPT ![p] = Bag({r}, {})]
    /\ roles_to_user' = ArrayUnion(roles_to_user, r, p)
    /\ resp' = "Successfully added role"
    /\ UNCHANGED <<roles, roleArray>>
    /\ UNCHANGED nonRoleVars

\* create_role by an admin: upsert of the level, union into roleArray.
create_role(r, level) ==
    /\ roles' = Upsert(roles, r, level)
    /\ roleArray' = roleArray \cup {r}
    /\ resp' = "Complete"
    /\ UNCHANGED <<claims, roles_to_user>>
    /\ UNCHANGED nonRoleVars

\* create_role / assign_role with a token whose admin claim is not True.
reject_non_admin ==
    /\ resp' = "Unauthorized"
    /\ UNCHANGED <<claims, roles, roleArray, roles_to_user>>
    /\ UNCHANGED nonRoleVars

\* GrantMerge adding the role's level to accessLevel instead of comparing.
GrantMerge_accumulate(bag, r, level) ==
    Bag(bag.flags \cup {r}, {LevelOf(bag) + level})

\* The new bag assign_role computes for a user who has claims already.
GrantMerge(bag, r, level) ==
    IF LevelOf(bag) >= level
    THEN Bag(bag.flags \cup {r}, bag.level)
    ELSE Bag(bag.flags \cup {r}, {level})

\* The claims of a user after assign_role of r (a role of the table), the
\* claims before being bag: the first grant, the KeyError on a bag without
\* "accessLevel" (nothing is written), or the merge.
AssignedClaims(bag, r) ==
    IF bag = None THEN Bag({r}, {roles[r]})
    ELSE IF ~HasLevel(bag) THEN bag
    ELSE GrantMerge(bag, r, roles[r])

\* assign_role by an admin.
assign_role(email, r) ==
    /\ UNCHANGED nonRoleVars
    /\ IF r \notin DOMAIN roles
       THEN \* roles_dict[role] raises KeyError outside the try
            /\ resp' = "Internal Server Error"
            /\ UNCHANGED <<claims, roles, roleArray, roles_to_user>>
       ELSE IF email \notin Principals
       THEN \* get_user_by_email raises, caught by the bare except
            /\ resp' = "Email doesn't exist"
            /\ UNCHANGED <<claims, roles, roleArray, roles_to_user>>
       ELSE IF claims[email] = None
       THEN /\ claims' = [claims EXCEPT ![email] = Bag({r}, {roles[r]})]
            /\ resp' = "Complete"
            /\ UNCHANGED <<roles, roleArray, roles_to_user>>
       ELSE IF ~HasLevel(claims[email])
       THEN \* current_custom_claims["accessLevel"] raises KeyError, caught
            /\ resp' = "Email doesn't exist"
            /\ UNCHANGED <<claims, roles, roleArray, roles_to_user>>
       ELSE /\ claims' = [claims EXCEPT ![email] = GrantMerge(@, r, roles[r])]
            /\ roles_to_user' = ArrayUnion(roles_to_user, r, email)
            /\ resp' = "Complete"
            /\ UNCHANGED <<roles, roleArray>>

\* The loop with the early return taken when the role's level is at most
\* accessLevel (<= for ==).
RECURSIVE Scan_le(_, _, _, _)
Scan_le(keys, i, bag, new_level) ==
    IF i > Len(keys) THEN [kind |-> "done", level |-> new_level]
    ELSE IF keys[i] = AccessLevelKey THEN Scan_le(keys, i + 1, bag, new_level)
    ELSE IF keys[i] \notin DOMAIN roles THEN [kind |-> "raise", level |-> new_level]
    ELSE IF ~HasLevel(bag) THEN [kind |-> "raise", level |-> new_level]
    ELSE IF roles[keys[i]] <= LevelOf(bag) THEN [kind |-> "short", level |-> new_level]
    ELSE Scan_le(keys, i + 1, bag, Max(new_level, roles[keys[i]]))

\* The loop without the early return.
RECURSIVE Scan_noreturn(_, _, _, _)
Scan_noreturn(keys, i, bag, new_level) ==
    IF i > Len(keys) THEN [kind |-> "done", level |-> new_level]
    ELSE IF keys[i] = AccessLevelKey THEN Scan_noreturn(keys, i + 1, bag, new_level)
    ELSE IF keys[i] \notin DOMAIN roles THEN [kind |-> "raise", level |-> new_level]
    ELSE IF ~HasLevel(bag) THEN [kind |-> "raise", level |-> new_level]
    ELSE Scan_noreturn(keys, i + 1, bag, Max(new_level, roles[keys[i]]))

\* The loop of revoke_role over all_keys[i..], bag being the claims after
\* the del.  Result: "raise" (an exception left the loop), "short" (the
\* early return inside the loop) or "done" with the new level.
RECURSIVE Scan(_, _, _, _)
Scan(keys, i, bag, new_level) ==
    IF i > Len(keys) THEN [kind |-> "done", level |-> new_level]
    ELSE IF keys[i] = AccessLevelKey THEN Scan(keys, i + 1, bag, new_level)
    ELSE IF keys[i] \notin DOMAIN roles THEN [kind |-> "raise", level |-> new_level]
    ELSE IF ~HasLevel(bag) THEN [kind |-> "raise", level |-> new_level]
    ELSE IF roles[keys[i]] = LevelOf(bag) THEN [kind |-> "short", level |-> new_level]
    ELSE Scan(keys, i + 1, bag, Max(new_level, roles[keys[i]]))

\* What revoke_role persists and answers once the held role key has been
\* deleted from the local claims and the remaining keys are listed in the
\* order all_keys.
RevokeOutcome(email, key, all_keys) ==
    LET bag == Bag(claims[email].flags \ {key}, claims[email].level)
        res == Scan(all_keys, 1, bag, 0)
    IN  CASE res.kind = "raise" ->
               [claims |-> claims, roles_to_user |-> roles_to_user,
                resp |-> "User has no role to remove"]
          [] res.kind = "short" ->
               [claims |-> [claims EXCEPT ![email] = bag],
                roles_to_user |-> roles_to_user,
                resp |-> "Complete"]
          [] res.kind = "done" ->
               [claims |-> [claims EXCEPT ![email] = Bag(bag.flags, {res.level})],
                roles_to_user |-> ArrayRemove(roles_to_user, key, email),
                resp |-> "Complete"]

\* revoke_role by an admin; key is data['role'].
revoke_role(email, key) ==
    /\ UNCHANGED nonRoleVars
    /\ IF email \notin Principals
       THEN \* get_user_by_email raises outside the try
            /\ resp' = "Internal Server Error"
            /\ UNCHANGED <<claims, roles, roleArray, roles_to_user>>
       ELSE IF claims[email] = None \/ key \notin Keys(claims[email])
       THEN \* TypeError / KeyError, caught by the bare except
            /\ resp' = "User has no role to remove"
            /\ UNCHANGED <<claims, roles, roleArray, roles_to_user>>
       ELSE IF key = AccessLevelKey
       THEN \* the value is a number: "is True" is false, the if is skipped
            /\ resp' = "Complete"
            /\ UNCHANGED <<claims, roles, roleArray, roles_to_user>>
       ELSE IF DOMAIN roles = {}
       THEN \* doc.to_dict()['roles'] raises, caught by the bare except
            /\ resp' = "User has no role to remove"
            /\ UNCHANGED <<claims, roles, roleArray, roles_to_user>>
       ELSE LET bag == Bag(claims[email].flags \ {key}, claims[email].level)
            IN  \E out \in {RevokeOutcome(email, key, all_keys) :
                                all_keys \in Orders(Keys(bag))} :
                      /\ claims' = out.claims
                      /\ roles_to_user' = out.roles_to_user
                      /\ resp' = out.resp
                      /\ UNCHANGED <<roles, roleArray>>

---------------------------------------------------------------------------
(* Notification timers *)

\* uuid4 strings
Ids == 1..MaxTimers

\* Registration-token lists handed to the callback
TokenLists == {[i \in 1..n |-> i] : n \in 1..MaxTokens}

\* Time strings: "garbage" is rejected by dateutil's parser, "naive" parses
\* to a datetime without tzinfo, "aware" to one with tzinfo; t is the instant.
TimeStrings ==
    {[kind |-> "garbage", t |-> 0]}
        \cup {[kind |-> k, t |-> t] : k \in {"naive", "aware"}, t \in 0..MaxTime}

Parseable(time) == time.kind # "garbage"

\* threading.Timer(interval, send_notification, args=(tokens, data)):
\* a thread object that has not been started; finished is its Event,
\* calls counts the runs of its function.
Timer(interval, tokens) ==
    [interval |-> interval, tokens |-> tokens,
     started |-> FALSE, finished |-> FALSE, calls |-> 0]

Raise(op, exc) == [op |-> op, raised |-> exc, value |-> <<>>]
Return(op, v)  == [op |-> op, raised |-> "none", value |-> v]

\* add_scheduled_notification with the parse failure swallowed: the timer
\* is registered with a zero delay instead of the call failing.
add_scheduled_notification_swallow(time, tokens) ==
    /\ UNCHANGED <<now, nonTimerVars>>
    /\ IF time.kind = "aware"
       THEN /\ ret' = Raise("add_scheduled_notification", "TypeError")
            /\ UNCHANGED <<timers, spawned>>
       ELSE \E id \in Ids \ DOMAIN spawned :
               /\ spawned' = Upsert(spawned, id,
                      Timer(IF Parseable(time) THEN time.t - now ELSE 0, tokens))
               /\ timers' = timers \cup {id}
               /\ ret' = Return("add_scheduled_notification", <<id>>)

\* add_scheduled_notification(time, tokens, data)
add_scheduled_notification(time, tokens) ==
    /\ UNCHANGED <<now, nonTimerVars>>
    /\ IF ~Parseable(time)
       THEN \* parser.parse raises
            /\ ret' = Raise("add_scheduled_notification", "ParserError")
            /\ UNCHANGED <<timers, spawned>>
       ELSE IF time.kind = "aware"
       THEN \* aware - datetime.now() (naive) raises
            /\ ret' = Raise("add_scheduled_notification", "TypeError")
            /\ UNCHANGED <<timers, spawned>>
       ELSE \E id \in Ids \ DOMAIN spawned :
               /\ spawned' = Upsert(spawned, id, Timer(time.t - now, tokens))
               /\ timers' = timers \cup {id}
               /\ ret' = Return("add_scheduled_notification", <<id>>)

\* add_medical_notifications(time, tokens, data): the first pass of the
\* loop evaluates datetime.timedelta on the datetime class.
add_medical_notifications(time, tokens) ==
    /\ UNCHANGED <<now, nonTimerVars>>
    /\ IF ~Parseable(time)
       THEN /\ ret' = Raise("add_medical_notifications", "ParserError")
            /\ UNCHANGED <<timers, spawned>>
       ELSE IF time.kind = "aware"
       THEN /\ ret' = Raise("add_medical_notifications", "TypeError")
            /\ UNCHANGED <<timers, spawned>>
       ELSE /\ ret' = Raise("add_medical_notifications", "AttributeError")
            /\ UNCHANGED <<timers, spawned>>

\* cancel_scheduled_notification without the del: the timer is cancelled
\* but stays in the registry.
cancel_scheduled_notification_nodel(id) ==
    /\ UNCHANGED <<now, nonTimerVars>>
    /\ ret' = Return("cancel_scheduled_notification", <<>>)
    /\ IF id \in timers
       THEN /\ spawned' = [spawned EXCEPT ![id].finished = TRUE]
            /\ UNCHANGED timers
       ELSE UNCHANGED <<timers, spawned>>

\* cancel_scheduled_notification(id)
cancel_scheduled_notification(id) ==
    /\ UNCHANGED <<now, nonTimerVars>>
    /\ ret' = Return("cancel_scheduled_notification", <<>>)
    /\ IF id \in timers
       THEN /\ spawned' = [spawned EXCEPT ![id].finished = TRUE]
            /\ timers' = timers \ {id}
       ELSE UNCHANGED <<timers, spawned>>

\* The wall clock advances.
Tick ==
    /\ now < MaxTime
    /\ now' = now + 1
    /\ UNCHANGED <<timers, spawned, ret, nonTimerVars>>

---------------------------------------------------------------------------
(* Notification documents (src/api/notifications.py) *)

UidNames == <<"u1", "u2", "u3", "u4">>

\* uids of the registered users (documents of the User collection)
Uids == {UidNames[i] : i \in 1..NumUsers}

\* notification ids (uuid4 strings)
NotifIds == 1..MaxNotifs

\* An argument left at its default None.
NoArg == "None"

\* The dod of user u, and a dod no user has.
DodNames   == <<"dod1", "dod2", "dod3", "dod4">>
DodOf(u)   == DodNames[CHOOSE i \in DOMAIN UidNames : UidNames[i] = u]
UnknownDod == "dod0"
Dods       == {DodOf(u) : u \in Uids} \cup {UnknownDod}

\* db.collection("User").where("dod", "==", dod): the uids found.
UsersWithDod(dod) == {u \in Uids : DodOf(u) = dod}

\* The Firestore document and the realtime entry create_notification writes.
NotifDoc(id, sender, receiver) ==
    [notification_id |-> id, sender |-> sender, receiver |-> receiver, read |-> FALSE]
RtdEntry(id, sender) == [notification_id |-> id, sender |-> sender]

\* create_notification(..., sender, ..., receiver_dod, receiver_uid)
create_notification(sender, receiver_dod, receiver_uid) ==
    /\ UNCHANGED <<roleVars, timerVars, pushed, reqs, thr>>
    /\ IF receiver_uid = NoArg /\ UsersWithDod(receiver_dod) = {}
       THEN \* raise NotFound, before any write
            /\ nresp' = "NotFound"
            /\ UNCHANGED <<notifs, rtd, minted>>
       ELSE \E id \in NotifIds \ minted :
              LET receiver == IF receiver_uid # NoArg THEN receiver_uid
                              ELSE CHOOSE u \in UsersWithDod(receiver_dod) : TRUE
              IN  /\ minted' = minted \cup {id}
                  /\ notifs' = Upsert(notifs, id, NotifDoc(id, sender, receiver))
                  /\ rtd' = Upsert(rtd, id, RtdEntry(id, sender))
                  /\ nresp' = "created"

\* Firestore / realtime database delete of one key
Delete(map, k) == [x \in DOMAIN map \ {k} |-> map[x]]

\* read_notification without the receiver check.
read_notification_noauth(uid, id) ==
    /\ UNCHANGED <<roleVars, timerVars, pushed, reqs, thr, minted>>
    /\ IF id \notin DOMAIN notifs
       THEN /\ nresp' = "NotFound"
            /\ UNCHANGED <<notifs, rtd>>
       ELSE IF notifs[id].read
       THEN /\ nresp' = "BadRequest"
            /\ UNCHANGED <<notifs, rtd>>
       ELSE /\ notifs' = [notifs EXCEPT ![id].read = TRUE]
            /\ rtd' = Delete(rtd, id)
            /\ nresp' = "Notification marked as read"

\* read_notification(notification_id) called with the token of uid
read_notification(uid, id) ==
    /\ UNCHANGED <<roleVars, timerVars, pushed, reqs, thr, minted>>
    /\ IF id \notin DOMAIN notifs
       THEN /\ nresp' = "NotFound"
            /\ UNCHANGED <<notifs, rtd>>
       ELSE IF notifs[id].receiver # uid
       THEN /\ nresp' = "Unauthorized"
            /\ UNCHANGED <<notifs, rtd>>
       ELSE IF notifs[id].read
       THEN /\ nresp' = "BadRequest"
            /\ UNCHANGED <<notifs, rtd>>
       ELSE /\ notifs' = [notifs EXCEPT ![id].read = TRUE]
            /\ rtd' = Delete(rtd, id)
            /\ nresp' = "Notification marked as read"

\* delete_notification(notification_id) called with the token of uid
delete_notification(uid, id) ==
    /\ UNCHANGED <<roleVars, timerVars, pushed, reqs, thr, minted>>
    /\ IF id \notin DOMAIN notifs
       THEN /\ nresp' = "NotFound"
            /\ UNCHANGED <<notifs, rtd>>
       ELSE IF notifs[id].receiver # uid
       THEN /\ nresp' = "Unauthorized"
            /\ UNCHANGED <<notifs, rtd>>
       ELSE /\ notifs' = Delete(notifs, id)
            /\ nresp' = "Notification deleted"
            /\ UNCHANGED rtd

---------------------------------------------------------------------------
(* Push dispatch *)

\* The token lists send_notification is called with directly.
SendLists == {[i \in 1..n |-> i] : n \in 1..MaxFanout}

\* send_notification with >= for ==: every non-empty list goes to its
\* first token.
send_notification_first(tokens) ==
    /\ Len(pushed) < MaxPushed
    /\ pushed' = Append(pushed,
                    IF Len(tokens) >= 1
                    THEN [call |-> "send", to |-> <<tokens[1]>>]
                    ELSE [call |-> "send_multicast", to |-> tokens])
    /\ UNCHANGED <<roleVars, timerVars, notifVars, reqs, thr>>

\* send_notification(tokens, data): one messaging.send with tokens[0] or
\* one messaging.send_multicast with the list.
send_notification(tokens) ==
    /\ Len(pushed) < MaxPushed
    /\ pushed' = Append(pushed,
                    IF Len(tokens) = 1
                    THEN [call |-> "send", to |-> <<tokens[1]>>]
                    ELSE [call |-> "send_multicast", to |-> tokens])
    /\ UNCHANGED <<roleVars, timerVars, notifVars, reqs, thr>>

---------------------------------------------------------------------------
(* cancel_scheduled_notification run by several request threads: the       *)
(* membership test, the lookup with cancel() and the del are separate      *)
(* steps on the shared dict.                                               *)

Threads == 1..NumThreads

IdleThread == [pc |-> "idle", id |-> 0, raised |-> "none"]

\* "if id in timers": the call returns at once when the id is absent.
cancel_test(t, id) ==
    /\ thr[t].pc = "idle"
    /\ thr' = [thr EXCEPT ![t] =
                 IF id \in timers
                 THEN [pc |-> "cancel", id |-> id, raised |-> "none"]
                 ELSE [pc |-> "idle", id |-> id, raised |-> "none"]]
    /\ UNCHANGED <<timers, spawned, now, ret, roleVars, notifVars, pushed, reqs>>

\* "timers[id].cancel()": KeyError when the entry has gone meanwhile.
cancel_stop(t) ==
    /\ thr[t].pc = "cancel"
    /\ IF thr[t].id \in timers
       THEN /\ spawned' = [spawned EXCEPT ![thr[t].id].finished = TRUE]
            /\ thr' = [thr EXCEPT ![t].pc = "del"]
       ELSE /\ thr' = [thr EXCEPT ![t] = [pc |-> "idle", id |-> @.id, raised |-> "KeyError"]]
            /\ UNCHANGED spawned
    /\ UNCHANGED <<timers, now, ret, roleVars, notifVars, pushed, reqs>>

\* "del timers[id]": KeyError when the entry has gone meanwhile.
cancel_del(t) ==
    /\ thr[t].pc = "del"
    /\ IF thr[t].id \in timers
       THEN /\ timers' = timers \ {thr[t].id}
            /\ thr' = [thr EXCEPT ![t].pc = "idle"]
       ELSE /\ thr' = [thr EXCEPT ![t] = [pc |-> "idle", id |-> @.id, raised |-> "KeyError"]]
            /\ UNCHANGED timers
    /\ UNCHANGED <<spawned, now, ret, roleVars, notifVars, pushed, reqs>>

\* add_scheduled_notification run by a request thread: its one access to
\* the dict is the store.
thread_schedule(time, tokens) ==
    /\ add_scheduled_notification(time, tokens)

---------------------------------------------------------------------------
(* assign_role run by concurrent requests: the read of the user's claims,  *)
(* the write of the whole bag and the index update are separate calls.     *)

Requests == 1..NumRequests

IdleRequest ==
    [pc |-> "idle", email |-> UnknownEmail, role |-> AccessLevelKey,
     level |-> 0, local |-> None, resp |-> "none"]

\* roles_dict[role], then auth.get_user_by_email(email).custom_claims and
\* the update of the local copy.
assign_read(q, email, r) ==
    /\ reqs[q].pc = "idle"
    /\ r \in DOMAIN roles
    /\ LET bag == claims[email]
       IN  reqs' = [reqs EXCEPT ![q] =
              IF bag = None
              THEN [pc |-> "set_first", email |-> email, role |-> r, level |-> roles[r],
                    local |-> Bag({r}, {roles[r]}), resp |-> "none"]
              ELSE IF ~HasLevel(bag)
              THEN [pc |-> "done", email |-> email, role |-> r, level |-> roles[r],
                    local |-> bag, resp |-> "Email doesn't exist"]
              ELSE [pc |-> "set", email |-> email, role |-> r, level |-> roles[r],
                    local |-> GrantMerge(bag, r, roles[r]), resp |-> "none"]]
    /\ UNCHANGED <<roleVars, timerVars, notifVars, pushed, thr>>

\* auth.set_custom_user_claims(user.uid, ...): the whole bag is replaced.
assign_write(q) ==
    /\ reqs[q].pc \in {"set_first", "set"}
    /\ claims' = [claims EXCEPT ![reqs[q].email] = reqs[q].local]
    /\ reqs' = [reqs EXCEPT ![q] =
                  IF @.pc = "set_first"
                  THEN [@ EXCEPT !.pc = "done", !.resp = "Complete"]
                  ELSE [@ EXCEPT !.pc = "index"]]
    /\ UNCHANGED <<roles, roleArray, roles_to_user, resp, timerVars, notifVars, pushed, thr>>

\* doc_ref.set({roles_to_user: {role: ArrayUnion([email])}}, merge=True)
assign_index(q) ==
    /\ reqs[q].pc = "index"
    /\ roles_to_user' = ArrayUnion(roles_to_user, reqs[q].role, reqs[q].email)
    /\ reqs' = [reqs EXCEPT ![q] = [@ EXCEPT !.pc = "done", !.resp = "Complete"]]
    /\ UNCHANGED <<claims, roles, roleArray, resp, timerVars, notifVars, pushed, thr>>

---------------------------------------------------------------------------
(* Specifications *)

Init ==
    /\ claims = [p \in Principals |-> None]
    /\ roles = <<>>
    /\ roleArray = {}
    /\ roles_to_user = [r \in Roles |-> {}]
    /\ resp = "none"
    /\ timers = {}
    /\ spawned = <<>>
    /\ now = 0
    /\ ret = Return("none", <<>>)
    /\ notifs = <<>>
    /\ rtd = <<>>
    /\ minted = {}
    /\ nresp = "none"
    /\ pushed = <<>>
    /\ reqs = [q \in Requests |-> IdleRequest]
    /\ thr = [t \in Threads |-> IdleThread]

\* All role endpoints, called with the role names of FewRoles.
RoleNext ==
    \/ \E p \in Principals, r \in FewRoles : grant_role(p, r)
    \/ \E r \in FewRoles, level \in Levels : create_role(r, level)
    \/ reject_non_admin
    \/ \E email \in Emails, r \in FewRoles : assign_role(email, r)
    \/ \E email \in Emails, key \in FewRoles \cup {AccessLevelKey} : revoke_role(email, key)

RoleSpec == Init /\ [][RoleNext]_vars

\* Grant, Revoke and the role table, called with the role names of FewRoles.
GrantRevokeNext ==
    \/ \E r \in FewRoles, level \in Levels : create_role(r, level)
    \/ \E email \in Emails, r \in FewRoles : assign_role(email, r)
    \/ \E email \in Emails, key \in FewRoles \cup {AccessLevelKey} : revoke_role(email, key)

GrantRevokeSpec == Init /\ [][GrantRevokeNext]_vars

\* Grant, Revoke and the role table only (no grant_role), with all of Roles.
AssignRevokeNext ==
    \/ \E r \in Roles, level \in Levels : create_role(r, level)
    \/ \E email \in Emails, r \in Roles : assign_role(email, r)
    \/ \E email \in Emails, key \in Roles \cup {AccessLevelKey} : revoke_role(email, key)

AssignRevokeSpec == Init /\ [][AssignRevokeNext]_vars

NotifNext ==
    \/ \E sender \in Uids, dod \in Dods \cup {NoArg}, uid \in Uids \cup {NoArg} :
          create_notification(sender, dod, uid)
    \/ \E uid \in Uids, id \in NotifIds : read_notification(uid, id)
    \/ \E uid \in Uids, id \in NotifIds : delete_notification(uid, id)

NotifSpec == Init /\ [][NotifNext]_vars

DispatchNext ==
    \E tokens \in SendLists : send_notification(tokens)

DispatchSpec == Init /\ [][DispatchNext]_vars

\* Request threads scheduling and cancelling on the shared registry.
CancelRaceNext ==
    \/ \E time \in TimeStrings, tokens \in TokenLists : thread_schedule(time, tokens)
    \/ \E t \in Threads, id \in Ids : cancel_test(t, id)
    \/ \E t \in Threads : cancel_stop(t)
    \/ \E t \in Threads : cancel_del(t)

CancelRaceSpec == Init /\ [][CancelRaceNext]_vars

\* Concurrent assign_role requests over a role table admins fill.
ConcAssignNext ==
    \/ \E r \in Roles, level \in Levels : create_role(r, level)
    \/ \E q \in Requests, email \in Principals, r \in Roles : assign_read(q, email, r)
    \/ \E q \in Requests : assign_write(q)
    \/ \E q \in Requests : assign_index(q)

ConcAssignSpec == Init /\ [][ConcAssignNext]_vars

TimerNext ==
    \/ \E time \in TimeStrings, tokens \in TokenLists : add_scheduled_notification(time, tokens)
    \/ \E time \in TimeStrings, tokens \in TokenLists : add_medical_notifications(time, tokens)
    \/ \E id \in Ids : cancel_scheduled_notification(id)
    \/ Tick

TimerSpec == Init /\ [][TimerNext]_vars

\* Time passes; nothing else is scheduled by the code (no Timer is started).
FairTimerSpec == TimerSpec /\ WF_vars(Tick)

Next == RoleNext \/ TimerNext \/ NotifNext \/ DispatchNext

Spec == Init /\ [][Next]_vars

---------------------------------------------------------------------------
(* Properties of the role endpoints *)

\* The roles a principal holds: the keys of its bag whose value is True.
Held(p) == IF claims[p] = None THEN {} ELSE claims[p].flags

RECURSIVE MaxLevelOf(_)
MaxLevelOf(S) ==
    IF S = {} THEN 0
    ELSE LET r == CHOOSE x \in S : TRUE
         IN  Max(roles[r], MaxLevelOf(S \ {r}))

\* C1: in every reachable state, every principal with a ClaimBag has an
\* accessLevel field, and it equals the maximum level in the role table of
\* the roles it holds (0 when it holds none).
C1_AccessLevelIsMaxHeld ==
    \A p \in Principals :
        claims[p] # None =>
            /\ HasLevel(claims[p])
            /\ LevelOf(claims[p]) = MaxLevelOf(Held(p) \cap DOMAIN roles)

\* C2: assign_role of a role of the role table to a principal that has a
\* ClaimBag sets the role's flag, raises accessLevel to the role's level when
\* that is strictly greater and keeps it otherwise; for a principal with no
\* ClaimBag the result is exactly {role: true, accessLevel: roleLevel}.
C2_GrantResult ==
    [][\A p \in Principals, r \in Roles :
          (r \in DOMAIN roles /\ assign_role(p, r)) =>
              IF claims[p] = None
              THEN claims'[p] = Bag({r}, {roles[r]})
              ELSE /\ r \in claims'[p].flags
                   /\ HasLevel(claims[p]) =>
                         claims'[p].level =
                             {IF roles[r] > LevelOf(claims[p])
                              THEN roles[r] ELSE LevelOf(claims[p])}]_vars

\* The key is not a role the principal holds: no bag, key absent, or the
\* key's value is not True.
NotHeld(p, key) == key \notin Held(p)

\* C3: revoke_role of a role the principal does not hold answers "User has
\* no role to remove" and changes neither the ClaimBag nor the index.
C3_RevokeNotHeldFails ==
    [][\A p \in Principals, key \in Roles \cup {AccessLevelKey} :
          (NotHeld(p, key) /\ revoke_role(p, key)) =>
              /\ resp' = "User has no role to remove"
              /\ claims' = claims
              /\ roles_to_user' = roles_to_user]_vars

\* C4: with no operation in flight, a principal's email is in
\* roles_to_user[r] exactly when its ClaimBag has r set to true.
C4_IndexConsistent ==
    \A r \in Roles, p \in Principals : p \in roles_to_user[r] <=> r \in Held(p)

\* C5: a revoke_role that removes a held role from the persisted ClaimBag
\* also removes the principal's email from roles_to_user under that role.
C5_RevokeUpdatesIndex ==
    [][\A p \in Principals, r \in Roles :
          (r \in Held(p) /\ revoke_role(p, r) /\ r \notin claims'[p].flags) =>
              p \notin roles_to_user'[r]]_vars

\* C11: assign_role is idempotent on the ClaimBag: the bag it leaves is the
\* bag a second assign_role of the same role to the same user would leave.
C11_GrantIdempotent ==
    [][\A p \in Principals, r \in Roles :
          (r \in DOMAIN roles /\ assign_role(p, r)) =>
              /\ claims'[p] = AssignedClaims(claims[p], r)
              /\ AssignedClaims(claims'[p], r) = claims'[p]]_vars

\* A role was granted to a user who had claims: the flag and the index
\* entry are there.
C11_Witness ==
    /\ resp = "Complete"
    /\ \E p \in Principals, r \in Roles :
          /\ r \in Held(p)
          /\ HasLevel(claims[p])
          /\ roles[r] < LevelOf(claims[p])
          /\ p \in roles_to_user[r]

\* The user has no bag, or its accessLevel is the maximum level of the
\* roles it holds, each of which has a level in the role table.
LevelIsMax(p) ==
    claims[p] # None =>
        /\ HasLevel(claims[p])
        /\ Held(p) \subseteq DOMAIN roles
        /\ LevelOf(claims[p]) = MaxLevelOf(Held(p))

SeveralShareLevel(p, key) ==
    /\ key \in Held(p)
    /\ HasLevel(claims[p])
    /\ Held(p) \ {key} \subseteq DOMAIN roles
    /\ Cardinality({k \in Held(p) \ {key} : roles[k] = LevelOf(claims[p])}) >= 2

RemainingKeys(p, key) == Keys(Bag(claims[p].flags \ {key}, claims[p].level))

\* C15 as stated: when several remaining roles share the previous
\* accessLevel, two scan orders give different outcomes.
C15_OrderDependent ==
    \A p \in Principals, key \in Roles :
        SeveralShareLevel(p, key) =>
            \E o1, o2 \in Orders(RemainingKeys(p, key)) :
                RevokeOutcome(p, key, o1) # RevokeOutcome(p, key, o2)

\* C15 amended: in that case every scan order gives the one outcome of the
\* early return: the role is removed, accessLevel and the index are kept,
\* the answer is "Complete".
C15_OrderIndependent ==
    \A p \in Principals, key \in Roles :
        SeveralShareLevel(p, key) =>
            \A o \in Orders(RemainingKeys(p, key)) :
                RevokeOutcome(p, key, o) =
                    [claims |-> [claims EXCEPT ![p] =
                                    Bag(claims[p].flags \ {key}, claims[p].level)],
                     roles_to_user |-> roles_to_user,
                     resp |-> "Complete"]

\* A user holds three roles, two of them at accessLevel.
C15_Witness ==
    \E p \in Principals, key \in Roles : SeveralShareLevel(p, key)

\* C18: revoke_role of a role the user holds removes it from the persisted
\* ClaimBag and never answers "User has no role to remove".
C18_RevokeHeldSucceeds ==
    [][\A p \in Principals, r \in Roles :
          (r \in Held(p) /\ revoke_role(p, r)) =>
              /\ resp' # "User has no role to remove"
              /\ r \notin claims'[p].flags]_vars

---------------------------------------------------------------------------
(* Properties of the notification timers *)

\* C6: a timer scheduled for a future time and not cancelled eventually has
\* its callback invoked, exactly once.
C6_ScheduledEventuallyFires ==
    \A id \in Ids :
        (id \in timers /\ spawned[id].interval > 0)
            ~> (id \notin timers \/ spawned[id].calls = 1)

\* C7: cancelling a pending id removes it from the registry and stops its
\* timer, whose callback then never runs; cancelling an id that is not in
\* the registry (cancelled before, or never issued) raises nothing and
\* changes neither the registry nor any timer.
C7_CancelPendingOrNoop ==
    [][/\ \A id \in Ids :
             cancel_scheduled_notification(id) =>
                 /\ ret'.raised = "none"
                 /\ IF id \in timers
                    THEN /\ timers' = timers \ {id}
                         /\ spawned'[id].finished
                         /\ spawned'[id].calls = 0
                    ELSE /\ timers' = timers
                         /\ spawned' = spawned
       /\ \A id \in DOMAIN spawned :
             (id \notin timers /\ spawned[id].finished) =>
                 /\ id \notin timers'
                 /\ spawned'[id] = spawned[id]]_vars

\* A pending timer has been cancelled: it left the registry, stopped.
C7_Witness ==
    /\ ret.op = "cancel_scheduled_notification"
    /\ \E id \in DOMAIN spawned :
          /\ id \notin timers
          /\ spawned[id].finished
          /\ spawned[id].calls = 0

\* C8: unless a Cancel is issued, every id in the registry eventually
\* leaves it (fired timers are dropped).
C8_RegistryEventuallyDrained ==
    \A id \in Ids :
        (id \in timers)
            ~> (id \notin timers \/ ret.op = "cancel_scheduled_notification")

\* C9: add_medical_notifications with a parseable time returns three
\* pairwise distinct ids, each registered as a pending timer.
C9_MedicalReturnsThreeIds ==
    [][\A time \in TimeStrings, tokens \in TokenLists :
          (Parseable(time) /\ add_medical_notifications(time, tokens)) =>
              /\ ret'.raised = "none"
              /\ Len(ret'.value) = 3
              /\ \A i, j \in 1..3 : i # j => ret'.value[i] # ret'.value[j]
              /\ \A i \in 1..3 :
                    /\ ret'.value[i] \in timers'
                    /\ ~spawned'[ret'.value[i]].finished]_vars

\* C10: add_scheduled_notification with an unparseable time string raises
\* and leaves the registry (and the set of timers) as it was.
C10_UnparseableCreatesNoTimer ==
    [][\A time \in TimeStrings, tokens \in TokenLists :
          (~Parseable(time) /\ add_scheduled_notification(time, tokens)) =>
              /\ ret'.raised # "none"
              /\ ret'.value = <<>>
              /\ timers' = timers
              /\ spawned' = spawned]_vars

\* The call failed on an unparseable string while a timer was registered.
C10_Witness ==
    /\ ret = Raise("add_scheduled_notification", "ParserError")
    /\ timers # {}

---------------------------------------------------------------------------
(* Properties of the notification documents *)

\* C12: read_notification and delete_notification by a uid other than the
\* receiver answer Unauthorized and change neither the document nor the
\* realtime entry; read_notification of a notification already read
\* answers BadRequest and changes nothing; a read flag only changes from
\* false to true, in a read_notification of the receiver.
C12_OnlyReceiverReads ==
    [][/\ \A uid \in Uids, id \in DOMAIN notifs :
             /\ (notifs[id].receiver # uid
                   /\ (read_notification(uid, id) \/ delete_notification(uid, id)))
                  => (nresp' = "Unauthorized" /\ notifs' = notifs /\ rtd' = rtd)
             /\ (notifs[id].receiver = uid /\ notifs[id].read
                   /\ read_notification(uid, id))
                  => (nresp' = "BadRequest" /\ notifs' = notifs /\ rtd' = rtd)
       /\ \A id \in DOMAIN notifs \cap DOMAIN notifs' :
             notifs'[id].read # notifs[id].read =>
                 /\ ~notifs[id].read
                 /\ notifs'[id].read
                 /\ read_notification(notifs[id].receiver, id)]_vars

\* A notification has been read and a request was refused as Unauthorized.
C12_Witness ==
    /\ nresp = "Unauthorized"
    /\ \E id \in DOMAIN notifs : notifs[id].read

\* C19: every entry under /notifications has a Notification document with
\* the same notification_id, and that document is unread.
C19_RtdEntriesAreUnreadDocs ==
    \A id \in DOMAIN rtd :
        /\ id \in DOMAIN notifs
        /\ notifs[id].notification_id = rtd[id].notification_id
        /\ ~notifs[id].read

---------------------------------------------------------------------------
(* Properties of the dispatch and of the concurrent runs *)

\* C13: send_notification makes exactly one call to the push collaborator:
\* a single-target send for a list of one token, a multicast send for a
\* list of more than one.
C13_OneCallPerSend ==
    [][\A tokens \in SendLists :
          send_notification(tokens) =>
              /\ Len(pushed') = Len(pushed) + 1
              /\ SubSeq(pushed', 1, Len(pushed)) = pushed
              /\ Len(tokens) = 1 =>
                    pushed'[Len(pushed')] = [call |-> "send", to |-> tokens]
              /\ Len(tokens) > 1 =>
                    pushed'[Len(pushed')] = [call |-> "send_multicast", to |-> tokens]]_vars

\* Both kinds of call have been made.
C13_Witness ==
    /\ \E i \in DOMAIN pushed : pushed[i].call = "send" /\ Len(pushed[i].to) = 1
    /\ \E i \in DOMAIN pushed : pushed[i].call = "send_multicast" /\ Len(pushed[i].to) > 1

\* C16: under every interleaving no Cancel raises, and once every call has
\* returned the registry holds exactly the scheduled ids not cancelled.
C16_ConcurrentCancelSafe ==
    /\ \A t \in Threads : thr[t].raised = "none"
    /\ (\A t \in Threads : thr[t].pc = "idle") =>
          timers = {id \in DOMAIN spawned : ~spawned[id].finished}

\* C17: when two assign_role requests for the same user and different roles
\* have both answered "Complete", the persisted bag has both roles and an
\* accessLevel no lower than either role's level.
C17_NoLostGrant ==
    \A q1, q2 \in Requests :
        (/\ q1 # q2
         /\ reqs[q1].pc = "done" /\ reqs[q1].resp = "Complete"
         /\ reqs[q2].pc = "done" /\ reqs[q2].resp = "Complete"
         /\ reqs[q1].email = reqs[q2].email
         /\ reqs[q1].role # reqs[q2].role) =>
            LET bag == claims[reqs[q1].email]
            IN  /\ bag # None
                /\ {reqs[q1].role, reqs[q2].role} \subseteq bag.flags
                /\ HasLevel(bag)
                /\ LevelOf(bag) >= Max(reqs[q1].level, reqs[q2].level)

====
